---- MODULE Spec2Model ----
\* A model of the WRF namelist.wps interactive configuration tool
\* (src/WRF_Namelist.wps_Interactive_Configuration_Tool.py).
\*
\* The module holds four specifications over one set of variables:
\*   SpecAdjust   adjust_params_for_max_dom called on bounded geogrid sections
\*   SpecGeom     suggest_nest_location and the fit check / repair of
\*                configure_geogrid on bounded dimensions
\*   SpecCodec    write_namelist_wps followed by read_existing_namelist
\*   Spec         a whole session of main(), one step per prompt
EXTENDS Integers, Sequences, FiniteSets, TLC

VARIABLES
  geogrid,   \* the geogrid section: key -> list (the per-domain keys) or scalar
  adj,       \* the calls of adjust_params_for_max_dom made so far and how the last ended
  geo,       \* one nested domain being placed in its parent (configure_geogrid)
  cod,       \* a Parameter Store being grown and written: the store and the file
  rd,        \* read_existing_namelist: the lines left, the open section, the sections
  ses        \* a session of main(): the prompt it waits at, the share section, how it ended

vars == <<geogrid, adj, geo, cod, rd, ses>>

\* ---------------------------------------------------------------- bounds

\* longest per-domain list of an input geogrid section
MaxLen == 2
\* largest target max_dom handed to adjust_params_for_max_dom
MaxDom == 3
\* largest grid dimension and start position of the placement inputs
MaxDim == 5
\* largest parent_grid_ratio of the placement inputs
MaxRatio == 3
\* most lines of a file handed to read_existing_namelist
MaxLines == 3

\* ------------------------------------------------------ Python semantics

Min(a, b) == IF a <= b THEN a ELSE b
Max(a, b) == IF a >= b THEN a ELSE b

\* a // b on integers, b # 0 (floor division, also for a negative divisor)
FloorDiv(a, b) == IF b > 0 THEN a \div b ELSE (0 - a) \div (0 - b)

\* math.ceil(a / b) on integers, b # 0
CeilDiv(a, b) == 0 - FloorDiv(0 - a, b)

\* s[i] on a list, 0-based, negative indices counting from the end
PyIndexOK(s, i) == i >= 0 - Len(s) /\ i < Len(s)
PyIndex(s, i) == IF i >= 0 THEN s[i + 1] ELSE s[Len(s) + i + 1]

\* s[:n] on a list; a negative n drops the last -n entries
PySliceTo(s, n) ==
  IF n >= 0 THEN SubSeq(s, 1, Min(n, Len(s)))
  ELSE SubSeq(s, 1, Max(0, Len(s) + n))

\* all lists over vals with at most n entries
ListsUpTo(vals, n) == UNION {[1..k -> vals] : k \in 0..n}

\* ----------------------------------------------------------------- text

\* A str is a sequence of one-character strings.
Digits == <<"0", "1", "2", "3", "4", "5", "6", "7", "8", "9">>
UpperCase ==
  <<"A", "B", "C", "D", "E", "F", "G", "H", "I", "J", "K", "L", "M",
    "N", "O", "P", "Q", "R", "S", "T", "U", "V", "W", "X", "Y", "Z">>
LowerCase ==
  <<"a", "b", "c", "d", "e", "f", "g", "h", "i", "j", "k", "l", "m",
    "n", "o", "p", "q", "r", "s", "t", "u", "v", "w", "x", "y", "z">>

IsDigit(c) == \E d \in 1..Len(Digits) : Digits[d] = c
DigitVal(c) == (CHOOSE d \in 1..Len(Digits) : Digits[d] = c) - 1

\* str.lower()
LowerChar(c) ==
  IF \E i \in 1..Len(UpperCase) : UpperCase[i] = c
    THEN LowerCase[CHOOSE i \in 1..Len(UpperCase) : UpperCase[i] = c]
    ELSE c
lower(text) == [i \in 1..Len(text) |-> LowerChar(text[i])]

\* str(n) of an int
RECURSIVE NatText(_)
NatText(n) ==
  IF n < 10 THEN <<Digits[n + 1]>>
  ELSE NatText(n \div 10) \o <<Digits[(n % 10) + 1]>>
str_int(n) == IF n < 0 THEN <<"-">> \o NatText(0 - n) ELSE NatText(n)

AllDigits(text) == Len(text) > 0 /\ \A i \in 1..Len(text) : IsDigit(text[i])
RECURSIVE NatValue(_)
NatValue(text) ==
  IF Len(text) = 0 THEN 0
  ELSE 10 * NatValue(SubSeq(text, 1, Len(text) - 1)) + DigitVal(text[Len(text)])

IsSpace(c) == c \in {" ", "\t", "\n", "\r"}

\* str.strip()
RECURSIVE lstrip(_)
lstrip(text) ==
  IF Len(text) > 0 /\ IsSpace(text[1]) THEN lstrip(Tail(text)) ELSE text
RECURSIVE rstrip(_)
rstrip(text) ==
  IF Len(text) > 0 /\ IsSpace(text[Len(text)])
    THEN rstrip(SubSeq(text, 1, Len(text) - 1)) ELSE text
strip(text) == rstrip(lstrip(text))

\* int(text) succeeds: surrounding blanks, an optional sign and decimal
\* digits (the "_" separators int() also accepts are not modelled)
IsIntText(text) ==
  LET t == strip(text) IN
  IF Len(t) > 0 /\ t[1] \in {"-", "+"} THEN AllDigits(Tail(t))
  ELSE AllDigits(t)

\* int(text), IsIntText(text)
int(text) ==
  LET t == strip(text) IN
  IF t[1] = "-" THEN 0 - NatValue(Tail(t))
  ELSE IF t[1] = "+" THEN NatValue(Tail(t))
  ELSE NatValue(t)

\* ------------------------------------------------------- text literals

T_share == <<"s", "h", "a", "r", "e">>
T_geogrid == <<"g", "e", "o", "g", "r", "i", "d">>
T_ungrib == <<"u", "n", "g", "r", "i", "b">>
T_metgrid == <<"m", "e", "t", "g", "r", "i", "d">>
T_wrf_core == <<"w", "r", "f", "_", "c", "o", "r", "e">>
T_max_dom == <<"m", "a", "x", "_", "d", "o", "m">>
T_start_date == <<"s", "t", "a", "r", "t", "_", "d", "a", "t", "e">>
T_end_date == <<"e", "n", "d", "_", "d", "a", "t", "e">>
T_interval_seconds ==
  <<"i", "n", "t", "e", "r", "v", "a", "l", "_", "s", "e", "c", "o",
    "n", "d", "s">>
T_io_form_geogrid ==
  <<"i", "o", "_", "f", "o", "r", "m", "_", "g", "e", "o", "g", "r",
    "i", "d">>
T_debug_level == <<"d", "e", "b", "u", "g", "_", "l", "e", "v", "e", "l">>
T_parent_id == <<"p", "a", "r", "e", "n", "t", "_", "i", "d">>
T_parent_grid_ratio ==
  <<"p", "a", "r", "e", "n", "t", "_", "g", "r", "i", "d", "_", "r",
    "a", "t", "i", "o">>
T_i_parent_start ==
  <<"i", "_", "p", "a", "r", "e", "n", "t", "_", "s", "t", "a", "r",
    "t">>
T_j_parent_start ==
  <<"j", "_", "p", "a", "r", "e", "n", "t", "_", "s", "t", "a", "r",
    "t">>
T_e_we == <<"e", "_", "w", "e">>
T_e_sn == <<"e", "_", "s", "n">>
T_geog_data_res ==
  <<"g", "e", "o", "g", "_", "d", "a", "t", "a", "_", "r", "e", "s">>
T_dx == <<"d", "x">>
T_dy == <<"d", "y">>
T_map_proj == <<"m", "a", "p", "_", "p", "r", "o", "j">>
T_ref_lat == <<"r", "e", "f", "_", "l", "a", "t">>
T_ref_lon == <<"r", "e", "f", "_", "l", "o", "n">>
T_truelat1 == <<"t", "r", "u", "e", "l", "a", "t", "1">>
T_truelat2 == <<"t", "r", "u", "e", "l", "a", "t", "2">>
T_stand_lon == <<"s", "t", "a", "n", "d", "_", "l", "o", "n">>
T_geog_data_path ==
  <<"g", "e", "o", "g", "_", "d", "a", "t", "a", "_", "p", "a", "t",
    "h">>
T_out_format == <<"o", "u", "t", "_", "f", "o", "r", "m", "a", "t">>
T_prefix == <<"p", "r", "e", "f", "i", "x">>
T_fg_name == <<"f", "g", "_", "n", "a", "m", "e">>
T_io_form_metgrid ==
  <<"i", "o", "_", "f", "o", "r", "m", "_", "m", "e", "t", "g", "r",
    "i", "d">>
T_ARW == <<"A", "R", "W">>
T_lambert == <<"l", "a", "m", "b", "e", "r", "t">>
T_path_to_geog ==
  <<"/", "p", "a", "t", "h", "/", "t", "o", "/", "g", "e", "o", "g">>
T_WPS == <<"W", "P", "S">>
T_FILE == <<"F", "I", "L", "E">>
T_NMM == <<"N", "M", "M">>
T_mercator == <<"m", "e", "r", "c", "a", "t", "o", "r">>
T_polar == <<"p", "o", "l", "a", "r">>
T_lat_lon == <<"l", "a", "t", "-", "l", "o", "n">>
T_namelist_wps == <<"n", "a", "m", "e", "l", "i", "s", "t", ".", "w", "p", "s">>
T_y == <<"y">>
T_yes == <<"y", "e", "s">>
T_modis_30s == <<"m", "o", "d", "i", "s", "_", "3", "0", "s">>
T_modis_15s == <<"m", "o", "d", "i", "s", "_", "1", "5", "s">>
T_SI == <<"S", "I">>
T_MM5 == <<"M", "M", "5">>
T_WRF == <<"W", "R", "F">>
T_default == <<"d", "e", "f", "a", "u", "l", "t">>
T_date_a ==
  <<"2", "0", "2", "6", "-", "1", "1", "-", "0", "5", "_", "2", "2",
    ":", "4", "0", ":", "0", "0">>
T_date_b ==
  <<"2", "0", "2", "6", "-", "1", "1", "-", "0", "6", "_", "2", "2",
    ":", "4", "0", ":", "0", "0">>
T_date_c ==
  <<"2", "0", "2", "6", "-", "1", "2", "-", "3", "1", "_", "0", "6",
    ":", "0", "0", ":", "0", "0">>
T_date_d ==
  <<"2", "0", "2", "7", "-", "0", "1", "-", "0", "1", "_", "0", "6",
    ":", "0", "0", ":", "0", "0">>

\* ------------------------------------------------- get_input, validators

\* lines 296-304
validate_positive_integer(value) == IsIntText(value) /\ int(value) > 0

\* lines 314-318
validate_option(value, options) == value \in options

\* lines 288-294
validate_integer(value) == IsIntText(value)

\* the number the digits of text[from..to] spell, or -1 when they are not
\* all digits
Field(text, from, to) ==
  IF from <= to /\ to <= Len(text) /\ AllDigits(SubSeq(text, from, to))
    THEN NatValue(SubSeq(text, from, to)) ELSE 0 - 1

\* lines 280-286: strptime(date_str, "%Y-%m-%d_%H:%M:%S") succeeds. Modelled
\* for the zero-padded form YYYY-MM-DD_HH:MM:SS with the fields in range
\* (shorter fields and the length of each month are not modelled).
validate_date(date_str) ==
  /\ Len(date_str) = 19
  /\ date_str[5] = "-" /\ date_str[8] = "-" /\ date_str[11] = "_"
  /\ date_str[14] = ":" /\ date_str[17] = ":"
  /\ Field(date_str, 1, 4) >= 1
  /\ Field(date_str, 6, 7) \in 1..12
  /\ Field(date_str, 9, 10) \in 1..31
  /\ Field(date_str, 12, 13) \in 0..23
  /\ Field(date_str, 15, 16) \in 0..59
  /\ Field(date_str, 18, 19) \in 0..61

\* get_input comparing the input with 'q' without lowering it
get_input_exact_q(default, is_valid, user_input) ==
  IF Len(user_input) = 0 THEN [out |-> "return", value |-> default]
  ELSE IF user_input = <<"q">> THEN [out |-> "exit", value |-> user_input]
  ELSE IF ~is_valid THEN [out |-> "retry", value |-> user_input]
  ELSE [out |-> "return", value |-> user_input]

\* lines 255-278, one pass of the loop on what the operator typed:
\* "return" with the value returned, "exit" (sys.exit(0)) or "retry" (the
\* validator refused the input and the prompt is shown again). is_valid is
\* the validator's verdict on user_input (TRUE for a call without validator);
\* it is read only where line 273 calls the validator.
get_input(default, is_valid, user_input) ==
  IF Len(user_input) = 0 THEN [out |-> "return", value |-> default]
  ELSE IF lower(user_input) = <<"q">> THEN [out |-> "exit", value |-> user_input]
  ELSE IF ~is_valid THEN [out |-> "retry", value |-> user_input]
  ELSE [out |-> "return", value |-> user_input]

\* --------------------------------------------------------------- values

\* A value of the Parameter Store carries its Python type: int, float, str
\* or list (of scalars). A float is its sign, whole part and fraction digits
\* without trailing zeros; exponents, inf and nan are not modelled.
IntV(n) == [t |-> "int", v |-> n]
FloatV(neg, whole, frac) ==
  [t |-> "float", v |-> [neg |-> neg, whole |-> whole, frac |-> frac]]
StrV(text) == [t |-> "str", v |-> text]
ListV(items) == [t |-> "list", v |-> items]

\* a dict in insertion order: a sequence of items [key, val]
Item(k, v) == [key |-> k, val |-> v]
DictKeys(d) == {d[i].key : i \in 1..Len(d)}
DictGet(d, k) == d[CHOOSE i \in 1..Len(d) : d[i].key = k].val
\* d[k] = v: an existing key keeps its place
DictSet(d, k, v) ==
  IF k \in DictKeys(d)
    THEN [i \in 1..Len(d) |-> IF d[i].key = k THEN Item(k, v) ELSE d[i]]
    ELSE Append(d, Item(k, v))

\* lines 54-67, now and tomorrow formatted as %Y-%m-%d_%H:%M:%S
default_share_params(now, tomorrow) ==
  <<Item(T_wrf_core, StrV(T_ARW)),
    Item(T_max_dom, IntV(1)),
    Item(T_start_date, ListV(<<StrV(now)>>)),
    Item(T_end_date, ListV(<<StrV(tomorrow)>>)),
    Item(T_interval_seconds, IntV(21600)),
    Item(T_io_form_geogrid, IntV(2)),
    Item(T_debug_level, IntV(0))>>

\* lines 69-87
default_geogrid_params ==
  <<Item(T_parent_id, ListV(<<IntV(1)>>)),
    Item(T_parent_grid_ratio, ListV(<<IntV(1)>>)),
    Item(T_i_parent_start, ListV(<<IntV(1)>>)),
    Item(T_j_parent_start, ListV(<<IntV(1)>>)),
    Item(T_e_we, ListV(<<IntV(100)>>)),
    Item(T_e_sn, ListV(<<IntV(100)>>)),
    Item(T_geog_data_res, ListV(<<StrV(T_default)>>)),
    Item(T_dx, IntV(30000)),
    Item(T_dy, IntV(30000)),
    Item(T_map_proj, StrV(T_lambert)),
    Item(T_ref_lat, FloatV(FALSE, 34, <<>>)),
    Item(T_ref_lon, FloatV(TRUE, 81, <<>>)),
    Item(T_truelat1, FloatV(FALSE, 30, <<>>)),
    Item(T_truelat2, FloatV(FALSE, 60, <<>>)),
    Item(T_stand_lon, FloatV(TRUE, 81, <<>>)),
    Item(T_geog_data_path, StrV(T_path_to_geog))>>

\* lines 89-93
default_ungrib_params ==
  <<Item(T_out_format, StrV(T_WPS)), Item(T_prefix, StrV(T_FILE))>>

\* lines 95-99
default_metgrid_params ==
  <<Item(T_fg_name, ListV(<<StrV(T_FILE)>>)), Item(T_io_form_metgrid, IntV(2))>>

\* --------------------------------------------------- write_namelist_wps

\* str(x) of a float
str_float(f) ==
  (IF f.neg THEN <<"-">> ELSE <<>>) \o NatText(f.whole) \o <<".">>
    \o (IF Len(f.frac) = 0 THEN <<"0">> ELSE f.frac)

\* str(x) of a scalar
str(x) ==
  CASE x.t = "int" -> str_int(x.v)
    [] x.t = "float" -> str_float(x.v)
    [] OTHER -> x.v

\* f"'{x}'"
Quote(text) == <<"'">> \o text \o <<"'">>

\* sep.join(texts)
RECURSIVE Join(_, _)
Join(texts, sep) ==
  IF Len(texts) = 0 THEN <<>>
  ELSE IF Len(texts) = 1 THEN texts[1]
  ELSE texts[1] \o sep \o Join(Tail(texts), sep)

\* format_value without the quotes around strings
format_value_bare(value) ==
  IF value.t = "list"
    THEN Join([i \in 1..Len(value.v) |-> str(value.v[i])], <<",", " ">>)
    ELSE str(value)

\* lines 723-733
format_value(value) ==
  IF value.t = "list" THEN
    IF \A i \in 1..Len(value.v) : value.v[i].t = "str"
      THEN Join([i \in 1..Len(value.v) |-> Quote(value.v[i].v)], <<",", " ">>)
      ELSE Join([i \in 1..Len(value.v) |-> str(value.v[i])], <<",", " ">>)
  ELSE IF value.t = "str" THEN Quote(value.v)
  ELSE str(value)

\* lines 738-741: the lines one section adds to the file; every section but
\* the last is followed by an empty line
SectionLines(name, params, last) ==
  <<(<<"&">> \o name)>>
    \o [i \in 1..Len(params) |->
          <<" ">> \o params[i].key \o <<" ", "=", " ">>
            \o format_value(params[i].val) \o <<",">>]
    \o (IF last THEN <<(<<"/">>)>> ELSE <<(<<"/">>), <<>>>>)

\* lines 719-762: the lines of the file written (opening the file does not fail)
write_namelist_wps(share, geogrid_params, ungrib, metgrid) ==
  SectionLines(T_share, share, FALSE)
    \o SectionLines(T_geogrid, geogrid_params, FALSE)
    \o SectionLines(T_ungrib, ungrib, FALSE)
    \o SectionLines(T_metgrid, metgrid, TRUE)

\* ----------------------------------------------- read_existing_namelist

startswith(text, c) == Len(text) > 0 /\ text[1] = c
endswith(text, c) == Len(text) > 0 /\ text[Len(text)] = c
Contains(text, c) == \E i \in 1..Len(text) : text[i] = c
FirstIndex(text, c) == CHOOSE i \in 1..Len(text) : text[i] = c /\ \A j \in 1..(i - 1) : text[j] # c

\* text.split(c)
RECURSIVE split(_, _)
split(text, c) ==
  IF ~Contains(text, c) THEN <<text>>
  ELSE <<SubSeq(text, 1, FirstIndex(text, c) - 1)>>
         \o split(SubSeq(text, FirstIndex(text, c) + 1, Len(text)), c)

\* float(text) succeeds: surrounding blanks, an optional sign, digits with
\* one "." among them and at least one digit
IsFloatText(text) ==
  LET t == strip(text)
      body == IF Len(t) > 0 /\ t[1] \in {"-", "+"} THEN Tail(t) ELSE t
      parts == split(body, ".")
  IN /\ Len(parts) = 2
     /\ Len(parts[1]) + Len(parts[2]) > 0
     /\ \A p \in 1..2 : \A i \in 1..Len(parts[p]) : IsDigit(parts[p][i])

RECURSIVE StripZeros(_)
StripZeros(digits) ==
  IF Len(digits) > 0 /\ digits[Len(digits)] = "0"
    THEN StripZeros(SubSeq(digits, 1, Len(digits) - 1)) ELSE digits

\* float(text), IsFloatText(text)
float(text) ==
  LET t == strip(text)
      neg == t[1] = "-"
      body == IF t[1] \in {"-", "+"} THEN Tail(t) ELSE t
      parts == split(body, ".")
  IN FloatV(neg, NatValue(parts[1]), StripZeros(parts[2]))

IsQuoted(v) ==
  \/ startswith(v, "'") /\ endswith(v, "'")
  \/ startswith(v, "\"") /\ endswith(v, "\"")

\* lines 218-228 and 233-243: one token to a scalar
parse_token(v) ==
  IF IsQuoted(v) THEN StrV(SubSeq(v, 2, Len(v) - 1))
  ELSE IF Contains(v, ".")
    THEN IF IsFloatText(v) THEN float(v) ELSE StrV(v)
  ELSE IF IsIntText(v) THEN IntV(int(v)) ELSE StrV(v)

\* lines 206-243: the text right of "=" to a value
parse_value(text) ==
  LET param_value == IF endswith(text, ",") THEN SubSeq(text, 1, Len(text) - 1) ELSE text
  IN IF Contains(param_value, ",")
       THEN LET values == split(param_value, ",")
            IN ListV([i \in 1..Len(values) |-> parse_token(strip(values[i]))])
       ELSE parse_token(param_value)

\* the section names of lines 181-188
SectionNames == {T_share, T_geogrid, T_ungrib, T_metgrid}

\* lines 163-168: the reader before the first line; current is the name of
\* the open section, <<>> for None
NewReader == [current |-> <<>>, secs |-> [n \in SectionNames |-> <<>>]]

\* lines 171-243: the body of the loop for one line of the file
ReadLine(st, raw) ==
  LET line == strip(raw) IN
  IF Len(line) = 0 \/ startswith(line, "!") THEN st
  ELSE IF startswith(line, "&") THEN
    LET section_name == lower(Tail(line)) IN
    IF section_name \in SectionNames THEN [st EXCEPT !.current = section_name]
    ELSE st
  ELSE IF startswith(line, "/") THEN [st EXCEPT !.current = <<>>]
  ELSE IF st.current # <<>> THEN
    IF ~Contains(line, "=") THEN st
    ELSE
      LET eq == FirstIndex(line, "=")
          param_name == strip(SubSeq(line, 1, eq - 1))
          param_value == strip(SubSeq(line, eq + 1, Len(line)))
      IN [st EXCEPT !.secs[st.current] =
            DictSet(st.secs[st.current], param_name, parse_value(param_value))]
  ELSE st

\* the keys of lines 248-250
WrappedKeys ==
  {T_start_date, T_end_date, T_parent_id, T_parent_grid_ratio, T_i_parent_start,
   T_j_parent_start, T_e_we, T_e_sn, T_geog_data_res, T_fg_name}

\* WrapLists leaving bare scalars as they were read
WrapNothing(params) == params

\* lines 246-251 for one section: a bare scalar under a per-domain key
\* becomes a one-element list
WrapLists(params) ==
  [i \in 1..Len(params) |->
     IF params[i].key \in WrappedKeys /\ params[i].val.t # "list"
       THEN Item(params[i].key, ListV(<<params[i].val>>))
       ELSE params[i]]

\* lines 245-253: the four sections returned
ReadReturn(st) == [n \in SectionNames |-> WrapLists(st.secs[n])]

\* lines 160-253 on the lines of a file
RECURSIVE ReadLines(_, _)
ReadLines(st, lines) ==
  IF Len(lines) = 0 THEN st ELSE ReadLines(ReadLine(st, lines[1]), Tail(lines))
read_existing_namelist(lines) == ReadReturn(ReadLines(NewReader, lines))

\* ------------------------------------------- adjust_params_for_max_dom

\* a variant of the key order that grows e_we and e_sn before the starts
list_params_dims_first ==
  <<"parent_id", "parent_grid_ratio", "e_we", "e_sn", "i_parent_start",
    "j_parent_start", "geog_data_res">>

list_params ==
  <<"parent_id", "parent_grid_ratio", "i_parent_start", "j_parent_start",
    "e_we", "e_sn", "geog_data_res">>

ListKeys == {list_params[i] : i \in 1..Len(list_params)}

\* params with params[key] replaced by val
SetKey(params, key, val) == [params EXCEPT ![key] = val]

\* params[key].append(v)
AppendTo(params, key, v) == SetKey(params, key, Append(params[key], v))

Ok(params) == [err |-> "none", params |-> params]
Raise(e, params) == [err |-> e, params |-> params]

\* lines 127-130 (dim = "e_we") and 132-135 (dim = "e_sn"): the centred start
\* of the domain about to be appended, with every lookup that can raise
CentredStart(params, key, dim) ==
  LET n == Len(params[key]) IN
  IF "parent_id" \notin DOMAIN params THEN Raise("KeyError", params)
  ELSE IF ~PyIndexOK(params["parent_id"], n) THEN Raise("IndexError", params)
  ELSE
    LET parent_idx == PyIndex(params["parent_id"], n) - 1 IN
    IF ~PyIndexOK(params[dim], parent_idx) THEN Raise("IndexError", params)
    ELSE IF "parent_grid_ratio" \notin DOMAIN params THEN Raise("KeyError", params)
    ELSE IF ~PyIndexOK(params["parent_grid_ratio"], n - 1)
      THEN Raise("IndexError", params)
    ELSE IF PyIndex(params["parent_grid_ratio"], n - 1) = 0
      THEN Raise("ZeroDivisionError", params)
    ELSE
      LET center == FloorDiv(PyIndex(params[dim], parent_idx), 2)
          child_size == FloorDiv(PyIndex(params[dim], n - 1),
                                 PyIndex(params["parent_grid_ratio"], n - 1))
      IN Ok(AppendTo(params, key, Max(1, center - FloorDiv(child_size, 2))))

\* lines 124-137: one pass for i_parent_start / j_parent_start
GrowStart(params, key, dim) ==
  IF Len(params[key]) = 0 THEN Ok(AppendTo(params, key, 1))
  ELSE IF dim \notin DOMAIN params THEN Raise("KeyError", params)
  ELSE IF Len(params[dim]) > Len(params[key]) THEN CentredStart(params, key, dim)
  ELSE Ok(AppendTo(params, key, 1))

\* GrowDim appending the previous entry as it is, odd or even
GrowDimNoBump(params, key) ==
  IF Len(params[key]) > 0
    THEN AppendTo(params, key, PyIndex(params[key], -1))
    ELSE AppendTo(params, key, 100)

\* lines 138-147: one pass for e_we / e_sn
GrowDim(params, key) ==
  IF Len(params[key]) > 0 THEN
    LET last_val == PyIndex(params[key], -1) IN
    AppendTo(params, key, IF last_val % 2 = 0 THEN last_val + 1 ELSE last_val)
  ELSE AppendTo(params, key, 100)

\* lines 114-153: one pass of the body of the while loop for key; a pass in
\* which no branch of the if/elif chain applies appends nothing
\* a variant that numbers the new domain's parent from 1
GrowParentIdOneBased(params, key) ==
  AppendTo(params, key, Len(params[key]) + 1)

\* params[key].append(len(params[key])) for parent_id
GrowParentId(params, key) ==
  AppendTo(params, key, Len(params[key]))

\* a variant that repeats the last entry for the second domain too
GrowRatioRepeat(params, key) ==
  AppendTo(params, key, PyIndex(params[key], -1))

\* the parent_grid_ratio branch: 3 for the second domain, then the last entry
GrowRatio(params, key) ==
  IF Len(params[key]) = 1
    THEN AppendTo(params, key, 3)
    ELSE AppendTo(params, key, PyIndex(params[key], -1))

WhileBody(params, key) ==
  IF key = "parent_id" /\ Len(params[key]) > 0
    THEN Ok(GrowParentId(params, key))
  ELSE IF key = "parent_grid_ratio" /\ Len(params[key]) > 0
    THEN Ok(GrowRatio(params, key))
  ELSE IF key = "i_parent_start" THEN GrowStart(params, key, "e_we")
  ELSE IF key = "j_parent_start" THEN GrowStart(params, key, "e_sn")
  ELSE IF key \in {"e_we", "e_sn"} THEN Ok(GrowDim(params, key))
  ELSE IF key = "geog_data_res"
    THEN IF Len(params[key]) > 0
           THEN Ok(AppendTo(params, key, PyIndex(params[key], -1)))
           ELSE Ok(AppendTo(params, key, T_default))
  ELSE Ok(params)

\* lines 113-153: the while loop for key. A pass that leaves params as it was
\* is repeated for ever (the loop condition reads nothing else): err = "hang".
RECURSIVE WhileLoop(_, _, _)
WhileLoop(params, key, max_dom) ==
  IF ~(Len(params[key]) < max_dom) THEN Ok(params)
  ELSE
    LET r == WhileBody(params, key) IN
    IF r.err # "none" THEN r
    ELSE IF r.params = params THEN Raise("hang", params)
    ELSE WhileLoop(r.params, key, max_dom)

\* Trim leaving a list that is too long as it is
TrimNothing(params, key, max_dom) == params

\* Trim keeping the last max_dom entries instead of the first
TrimFront(params, key, max_dom) ==
  SetKey(params, key,
         SubSeq(params[key], Max(1, Len(params[key]) - max_dom + 1), Len(params[key])))

\* line 156: params[key] = params[key][:max_dom]
Trim(params, key, max_dom) == SetKey(params, key, PySliceTo(params[key], max_dom))

\* lines 108-156: the body of the for loop for one key
ForKey(params, key, max_dom) ==
  IF key \notin DOMAIN params THEN Ok(params)
  ELSE
    LET r == WhileLoop(params, key, max_dom) IN
    IF r.err # "none" THEN r ELSE Ok(Trim(r.params, key, max_dom))

\* lines 108-158: the for loop from the k-th key of list_params on
RECURSIVE ForLoop(_, _, _)
ForLoop(params, k, max_dom) ==
  IF k > Len(list_params) THEN Ok(params)
  ELSE
    LET r == ForKey(params, list_params[k], max_dom) IN
    IF r.err # "none" THEN r ELSE ForLoop(r.params, k + 1, max_dom)

\* lines 101-158: the whole call. err = "none": it returned params; "hang":
\* it never returns; anything else: the exception it raised. params is the
\* section as the call left it (the lists are mutated in place).
adjust_params_for_max_dom(params, max_dom) == ForLoop(params, 1, max_dom)

\* ------------------------------------------------------ nest placement

\* suggest_nest_location halving the nest size upwards
suggest_ceil_half(parent_dim, nest_dim, ratio) ==
  Max(1, FloorDiv(parent_dim, 2) - CeilDiv(CeilDiv(nest_dim, ratio), 2))

\* suggest_nest_location starting the nest at the centre of the parent
suggest_parent_center(parent_dim, nest_dim, ratio) ==
  Max(1, FloorDiv(parent_dim, 2))

\* lines 320-326
suggest_nest_location(parent_dim, nest_dim, ratio) ==
  LET parent_center == FloorDiv(parent_dim, 2)
      nest_size_in_parent == CeilDiv(nest_dim, ratio)
  IN Max(1, parent_center - FloorDiv(nest_size_in_parent, 2))

\* lines 581-582: the last parent cell the nest covers on one axis
NestEnd(start, nest_dim, ratio) == start + CeilDiv(nest_dim, ratio) - 1

\* line 584
OutOfBounds(i_end, j_end, parent_we, parent_sn) ==
  i_end > parent_we \/ j_end > parent_sn

\* lines 591-597, one axis: the start after the operator accepted the adjustment
RepairStart(start, end, parent_dim, nest_dim, ratio) ==
  IF end > parent_dim
    THEN Max(1, parent_dim - CeilDiv(nest_dim, ratio) + 1)
    ELSE start

\* ----------------------------------------------------------- SpecAdjust

\* values of the input lists
ParentIdInputs == {1, 9}
RatioInputs == {0, 1}
StartInputs == {2}
DimInputs == {100, 101}
ResInputs == {T_default}

\* the keys an input section may lack
MissingInputs == {{}, {"geog_data_res"}, {"e_we", "e_sn"}}

\* target max_dom values (a max_dom read from a file may be negative)
Targets == -1..MaxDom

\* a geogrid section holding the seven per-domain lists; j_parent_start and
\* e_sn are as long as i_parent_start and e_we
Section(pid, ratio, start, dim, res) ==
  [k \in {list_params[i] : i \in 1..Len(list_params)} |->
     CASE k = "parent_id" -> pid
       [] k = "parent_grid_ratio" -> ratio
       [] k \in {"i_parent_start", "j_parent_start"} -> start
       [] k \in {"e_we", "e_sn"} -> dim
       [] OTHER -> res]

Without(params, miss) == [k \in (DOMAIN params) \ miss |-> params[k]]

AdjustInputs ==
  {Without(Section(pid, ratio, start, dim, res), miss) :
     pid \in ListsUpTo(ParentIdInputs, MaxLen),
     ratio \in ListsUpTo(RatioInputs, MaxLen),
     start \in ListsUpTo(StartInputs, MaxLen),
     dim \in ListsUpTo(DimInputs, MaxLen),
     res \in ListsUpTo(ResInputs, MaxLen),
     miss \in MissingInputs}

\* the values of the variables a specification does not use
NoAdj == [calls |-> <<>>, err |-> "none"]
NoGeo == [pc |-> "off"]
NoGeogrid == [k \in {} |-> <<>>]
NoCod == [pc |-> "off"]
NoRd == [pc |-> "off"]
NoSes == [pc |-> "off"]

InitAdjust ==
  /\ geogrid \in AdjustInputs
  /\ adj = NoAdj
  /\ geo = NoGeo
  /\ cod = NoCod
  /\ rd = NoRd
  /\ ses = NoSes

\* geogrid_params = adjust_params_for_max_dom(geogrid_params, n)
Call(n) ==
  \E r \in {adjust_params_for_max_dom(geogrid, n)} :
  /\ geogrid' = r.params
  /\ adj' = [calls |-> Append(adj.calls, [n |-> n, pre |-> geogrid]), err |-> r.err]
  /\ UNCHANGED <<geo, cod, rd, ses>>

\* the first call on the input section
AdjustFirst ==
  /\ Len(adj.calls) = 0
  /\ \E n \in Targets : Call(n)

\* a second call on the section the first call returned
AdjustAgain ==
  /\ Len(adj.calls) = 1
  /\ adj.err = "none"
  /\ \E n \in Targets : Call(n)

NextAdjust == AdjustFirst \/ AdjustAgain

SpecAdjust == InitAdjust /\ [][NextAdjust]_vars

\* ------------------------------------------------------- the session

\* the name of a per-domain key as text
KeyText(k) ==
  CASE k = "parent_id" -> T_parent_id
    [] k = "parent_grid_ratio" -> T_parent_grid_ratio
    [] k = "i_parent_start" -> T_i_parent_start
    [] k = "j_parent_start" -> T_j_parent_start
    [] k = "e_we" -> T_e_we
    [] k = "e_sn" -> T_e_sn
    [] k = "geog_data_res" -> T_geog_data_res

\* the per-domain lists of a geogrid section as adjust_params_for_max_dom
\* reads them (the bare ints and strs), and put back into the section
BareLists(params) ==
  [k \in {x \in ListKeys : KeyText(x) \in DictKeys(params)} |->
     LET l == DictGet(params, KeyText(k)).v IN [i \in 1..Len(l) |-> l[i].v]]
WithLists(params, bare) ==
  [i \in 1..Len(params) |->
     IF \E k \in DOMAIN bare : KeyText(k) = params[i].key
       THEN LET k == CHOOSE x \in DOMAIN bare : KeyText(x) = params[i].key
            IN Item(params[i].key,
                    ListV([j \in 1..Len(bare[k]) |->
                             IF k = "geog_data_res" THEN StrV(bare[k][j])
                             ELSE IntV(bare[k][j])]))
       ELSE params[i]]

\* lines 348-351 for one key: the dates follow max_dom
RECURSIVE GrowDates(_, _)
GrowDates(dates, max_dom) ==
  IF Len(dates) < max_dom THEN GrowDates(Append(dates, PyIndex(dates, 0)), max_dom)
  ELSE PySliceTo(dates, max_dom)


\* largest number of domains of a session: the largest max_dom the operator
\* types or an existing namelist.wps holds, and its longest per-domain list
MaxSessionDom == 2

\* lines 306-312: float(value) succeeds
validate_float(value) == IsIntText(value) \/ IsFloatText(value)

\* The session keeps, of the share section, max_dom and the two date lists,
\* of the geogrid section the seven per-domain lists (the variable geogrid)
\* and map_proj. The other scalars are prompted for but not kept: they
\* decide no later step. An existing namelist.wps is taken as the sections
\* read_existing_namelist returns for it, with int entries in its lists.

Both(s, g) == [ses |-> s, geogrid |-> g]
\* no namelist.wps in the working directory, or none looked at any more
NoFile ==
  [found |-> FALSE, readable |-> FALSE,
   share |-> [max_dom |-> 0, start_date |-> <<>>, end_date |-> <<>>],
   geogrid |-> [k \in ListKeys |-> <<>>]]
\* the session waits at prompt pc of domain i (0-based)
At(s, g, pc, i) == Both([s EXCEPT !.pc = pc, !.i = i], g)
\* an exception no one catches ends the process
Crash(s, g, e) == Both([s EXCEPT !.ended = "crash", !.err = e], g)
\* params[key][i] = x
SetAt(g, key, i, x) == [g EXCEPT ![key][i + 1] = x]
Configured(s, name) == [s EXCEPT !.order = Append(s.order, name)]

\* review_configuration accepting every answer
review_accepts_all(confirm) == TRUE

\* line 717
review_accepted(confirm) == lower(confirm) \in {T_y, T_yes}

\* lines 684-705: what printing the summary of domains i.. raises, "none"
\* if nothing
RECURSIVE ReviewDomains(_, _, _)
ReviewDomains(g, i, max_dom) ==
  IF ~(i < max_dom) THEN "none"
  ELSE IF ~PyIndexOK(g["e_we"], i) \/ ~PyIndexOK(g["e_sn"], i) THEN "IndexError"
  ELSE IF i > 0 /\ (\/ ~PyIndexOK(g["parent_id"], i)
                    \/ ~PyIndexOK(g["parent_grid_ratio"], i)
                    \/ ~PyIndexOK(g["i_parent_start"], i)
                    \/ ~PyIndexOK(g["j_parent_start"], i)) THEN "IndexError"
  ELSE IF i > 0 /\ PyIndex(g["parent_id"], i) - 1 # 0
            /\ ~PyIndexOK(g["parent_grid_ratio"], PyIndex(g["parent_id"], i) - 1)
    THEN "IndexError"
  ELSE IF i > 0 /\ PyIndex(g["parent_grid_ratio"], i)
                     * (IF PyIndex(g["parent_id"], i) - 1 = 0 THEN 1
                        ELSE PyIndex(g["parent_grid_ratio"],
                                     PyIndex(g["parent_id"], i) - 1)) = 0
    THEN "ZeroDivisionError"
  ELSE IF ~PyIndexOK(g["geog_data_res"], i) THEN "IndexError"
  ELSE ReviewDomains(g, i + 1, max_dom)

\* lines 668-713: what printing the summary raises, "none" if nothing
ReviewError(share, g) ==
  IF Len(share.start_date) = 0 \/ Len(share.end_date) = 0 THEN "IndexError"
  ELSE ReviewDomains(g, 0, share.max_dom)

\* lines 601-624: the resolution prompts, then the data path
GeogResLoop(s, g, i) ==
  IF i < s.share.max_dom THEN At(s, g, "geog_data_res", i)
  ELSE At(s, g, "geog_data_path", 0)

\* lines 543-571: the start positions of domain i, from the suggestion on
StartLoop(s, g, i) ==
  IF ~(s.share.max_dom > 1 /\ i < s.share.max_dom) THEN GeogResLoop(s, g, 0)
  ELSE
    LET parent_index == PyIndex(g["parent_id"], i) - 1 IN
    IF ~PyIndexOK(g["e_we"], parent_index) THEN Crash(s, g, "IndexError")
    ELSE IF PyIndex(g["parent_grid_ratio"], i) = 0
      THEN Crash(s, g, "ZeroDivisionError")
    ELSE IF ~PyIndexOK(g["e_sn"], parent_index) THEN Crash(s, g, "IndexError")
    ELSE At(s, g, "i_parent_start", i)

\* lines 506-533: the dimensions of domain i, from the suggested dimensions on
DimLoop(s, g, i) ==
  IF ~(i < s.share.max_dom) THEN StartLoop(s, g, 1)
  ELSE IF i = 0 THEN At(s, g, "e_we", 0)
  ELSE
    LET parent_index == PyIndex(g["parent_id"], i) - 1 IN
    IF ~PyIndexOK(g["e_we"], parent_index) \/ ~PyIndexOK(g["e_sn"], parent_index)
      THEN Crash(s, g, "IndexError")
    ELSE At(s, g, "e_we", i)

\* lines 479-493: after stand_lon
NestingLoop(s, g) ==
  IF s.share.max_dom > 1 THEN At(s, SetAt(g, "parent_id", 0, 1), "parent_id", 1)
  ELSE DimLoop(s, g, 0)

\* lines 353-369: the date prompts
EndDateLoop(s, g, i) ==
  IF i < s.share.max_dom THEN At(s, g, "end_date", i)
  ELSE At(s, g, "interval_seconds", 0)
StartDateLoop(s, g, i) ==
  IF i < s.share.max_dom THEN At(s, g, "start_date", i)
  ELSE EndDateLoop(s, g, 0)

\* lines 345-354: max_dom is stored and the date lists follow it
AfterMaxDom(s, g, max_dom_str) ==
  LET max_dom == int(max_dom_str) IN
  IF max_dom > 0 /\ (Len(s.share.start_date) = 0 \/ Len(s.share.end_date) = 0)
    THEN Crash([s EXCEPT !.share.max_dom = max_dom], g, "IndexError")
  ELSE StartDateLoop(
         [s EXCEPT !.share = [max_dom |-> max_dom,
                              start_date |-> GrowDates(s.share.start_date, max_dom),
                              end_date |-> GrowDates(s.share.end_date, max_dom)]],
         g, 0)

\* lines 395, 37-39, 398-406: configure_share returns, the per-domain lists
\* are adjusted and configure_geogrid asks for the projection
AfterShare(s, g) ==
  LET r == adjust_params_for_max_dom(g, s.share.max_dom)
      s1 == Configured(s, "share")
  IN IF r.err = "none" THEN At(s1, r.params, "map_proj", 0)
     ELSE IF r.err = "hang" THEN Both([s1 EXCEPT !.ended = "hang"], r.params)
     ELSE Crash(s1, r.params, r.err)

\* lines 438-477: the prompt after ref_lon depends on the projection
AfterRefLon(s, g) ==
  IF s.map_proj = T_lambert THEN At(s, g, "truelat1", 0)
  ELSE IF s.map_proj = T_mercator THEN At(s, g, "truelat1_mercator", 0)
  ELSE IF s.map_proj = T_polar THEN At(s, g, "truelat1_polar", 0)
  ELSE At(s, g, "stand_lon", 0)

\* lines 580-599: the fit check after j_parent_start
FitCheck(s, g, i) ==
  LET parent_index == PyIndex(g["parent_id"], i) - 1
      ratio == PyIndex(g["parent_grid_ratio"], i)
      i_end == NestEnd(PyIndex(g["i_parent_start"], i), PyIndex(g["e_we"], i), ratio)
      j_end == NestEnd(PyIndex(g["j_parent_start"], i), PyIndex(g["e_sn"], i), ratio)
  IN IF OutOfBounds(i_end, j_end, PyIndex(g["e_we"], parent_index),
                    PyIndex(g["e_sn"], parent_index))
       THEN At(s, g, "adjust", i)
       ELSE StartLoop(s, g, i + 1)

\* lines 590-599: the answer to the adjust prompt
AfterAdjust(s, g, i, adjust) ==
  IF lower(adjust) \in {T_y, T_yes} THEN
    LET parent_index == PyIndex(g["parent_id"], i) - 1
        ratio == PyIndex(g["parent_grid_ratio"], i)
        i_start == PyIndex(g["i_parent_start"], i)
        j_start == PyIndex(g["j_parent_start"], i)
        g1 == SetAt(g, "i_parent_start", i,
                RepairStart(i_start, NestEnd(i_start, PyIndex(g["e_we"], i), ratio),
                            PyIndex(g["e_we"], parent_index), PyIndex(g["e_we"], i), ratio))
        g2 == SetAt(g1, "j_parent_start", i,
                RepairStart(j_start, NestEnd(j_start, PyIndex(g["e_sn"], i), ratio),
                            PyIndex(g["e_sn"], parent_index), PyIndex(g["e_sn"], i), ratio))
    IN StartLoop(s, g2, i + 1)
  ELSE StartLoop(s, g, i + 1)

\* lines 666, 42-45, 668-716: configure_metgrid returns and the summary is
\* printed before the review prompt
AfterMetgrid(s, g) ==
  LET s1 == Configured(s, "metgrid") IN
  IF ReviewError(s1.share, g) # "none" THEN Crash(s1, g, ReviewError(s1.share, g))
  ELSE At(s1, g, "review", 0)

\* what the built-in defaults hold of the state the session keeps
DefaultShare(now, tomorrow) ==
  LET d == default_share_params(now, tomorrow)
      dates(k) == [i \in 1..Len(DictGet(d, k).v) |-> DictGet(d, k).v[i].v]
  IN [max_dom |-> DictGet(d, T_max_dom).v,
      start_date |-> dates(T_start_date),
      end_date |-> dates(T_end_date)]
DefaultLists == BareLists(default_geogrid_params)

\* the text offered for a scalar the session does not keep: the stored
\* value is the built-in default's
Scalar(pc) ==
  CASE pc = "wrf_core" -> DictGet(default_share_params(T_date_a, T_date_b), T_wrf_core).v
    [] pc = "interval_seconds" ->
         str(DictGet(default_share_params(T_date_a, T_date_b), T_interval_seconds))
    [] pc = "io_form_geogrid" ->
         str(DictGet(default_share_params(T_date_a, T_date_b), T_io_form_geogrid))
    [] pc = "debug_level" ->
         str(DictGet(default_share_params(T_date_a, T_date_b), T_debug_level))
    [] pc = "dx" -> str(DictGet(default_geogrid_params, T_dx))
    [] pc = "dy" -> str(DictGet(default_geogrid_params, T_dy))
    [] pc = "ref_lat" -> str(DictGet(default_geogrid_params, T_ref_lat))
    [] pc = "ref_lon" -> str(DictGet(default_geogrid_params, T_ref_lon))
    [] pc \in {"truelat1", "truelat1_mercator", "truelat1_polar"} ->
         str(DictGet(default_geogrid_params, T_truelat1))
    [] pc = "truelat2" -> str(DictGet(default_geogrid_params, T_truelat2))
    [] pc = "stand_lon" -> str(DictGet(default_geogrid_params, T_stand_lon))
    [] pc = "geog_data_path" -> DictGet(default_geogrid_params, T_geog_data_path).v
    [] pc = "out_format" -> DictGet(default_ungrib_params, T_out_format).v
    [] pc = "prefix" -> DictGet(default_ungrib_params, T_prefix).v
    [] pc = "fg_name" ->
         Join([i \in 1..Len(DictGet(default_metgrid_params, T_fg_name).v) |->
                 DictGet(default_metgrid_params, T_fg_name).v[i].v], <<",">>)
    [] pc = "io_form_metgrid" -> str(DictGet(default_metgrid_params, T_io_form_metgrid))

\* the default argument of the get_input call of prompt s.pc
Default(s, g) ==
  LET i == s.i
      parent_index == PyIndex(g["parent_id"], i) - 1
  IN
  CASE s.pc \in {"use_existing", "adjust", "review"} -> T_y
    [] s.pc = "max_dom" -> str_int(s.share.max_dom)
    [] s.pc = "start_date" -> PyIndex(s.share.start_date, i)
    [] s.pc = "end_date" -> PyIndex(s.share.end_date, i)
    [] s.pc = "map_proj" -> s.map_proj
    [] s.pc \in {"parent_id", "parent_grid_ratio"} -> str_int(PyIndex(g[s.pc], i))
    [] s.pc \in {"e_we", "e_sn"} ->
         IF i < Len(g[s.pc]) THEN str_int(PyIndex(g[s.pc], i)) ELSE str_int(101)
    [] s.pc = "i_parent_start" ->
         str_int(suggest_nest_location(PyIndex(g["e_we"], parent_index),
                                       PyIndex(g["e_we"], i),
                                       PyIndex(g["parent_grid_ratio"], i)))
    [] s.pc = "j_parent_start" ->
         str_int(suggest_nest_location(PyIndex(g["e_sn"], parent_index),
                                       PyIndex(g["e_sn"], i),
                                       PyIndex(g["parent_grid_ratio"], i)))
    [] s.pc = "geog_data_res" ->
         IF i < Len(g["geog_data_res"]) THEN PyIndex(g["geog_data_res"], i)
         ELSE IF i = 0 THEN T_modis_30s ELSE T_modis_15s
    [] s.pc = "output_filename" -> T_namelist_wps
    [] OTHER -> Scalar(s.pc)

\* the verdict of the validator of prompt s.pc on the input; TRUE where
\* get_input is called without one
IsValid(s, user_input) ==
  CASE s.pc \in {"wrf_core"} -> validate_option(user_input, {T_ARW, T_NMM})
    [] s.pc \in {"max_dom", "interval_seconds", "dx", "dy", "parent_grid_ratio",
                 "e_we", "e_sn", "i_parent_start", "j_parent_start"} ->
         validate_positive_integer(user_input)
    [] s.pc \in {"start_date", "end_date"} -> validate_date(user_input)
    [] s.pc \in {"io_form_geogrid", "io_form_metgrid"} ->
         validate_option(user_input, {<<"1">>, <<"2">>, <<"3">>})
    [] s.pc = "debug_level" -> validate_integer(user_input)
    [] s.pc = "map_proj" ->
         validate_option(user_input, {T_lambert, T_mercator, T_polar, T_lat_lon})
    [] s.pc \in {"ref_lat", "ref_lon", "truelat1", "truelat2", "truelat1_mercator",
                 "truelat1_polar", "stand_lon"} -> validate_float(user_input)
    [] s.pc = "parent_id" ->
         validate_option(user_input, {str_int(j) : j \in 1..s.i})
    [] s.pc = "out_format" -> validate_option(user_input, {T_WPS, T_SI, T_MM5, T_WRF})
    [] OTHER -> TRUE

\* The code from the return of a get_input call to the next prompt, or to
\* the end of the process, for the prompts of each function.

\* lines 25-31: an unreadable file leaves the built-in defaults
AcceptExisting(s, g, value) ==
  IF lower(value) \in {T_y, T_yes} /\ s.file.readable
    THEN At([s EXCEPT !.share = s.file.share, !.seed = "file", !.file = NoFile],
            s.file.geogrid, "wrf_core", 0)
    ELSE At([s EXCEPT !.file = NoFile], g, "wrf_core", 0)

\* lines 333-395
AcceptShare(s, g, value) ==
  CASE s.pc = "wrf_core" -> At(s, g, "max_dom", 0)
    [] s.pc = "max_dom" -> AfterMaxDom(s, g, value)
    [] s.pc = "start_date" ->
         StartDateLoop([s EXCEPT !.share.start_date[s.i + 1] = value], g, s.i + 1)
    [] s.pc = "end_date" ->
         EndDateLoop([s EXCEPT !.share.end_date[s.i + 1] = value], g, s.i + 1)
    [] s.pc = "interval_seconds" -> At(s, g, "io_form_geogrid", 0)
    [] s.pc = "io_form_geogrid" -> At(s, g, "debug_level", 0)
    [] s.pc = "debug_level" -> AfterShare(s, g)

\* lines 402-626
AcceptGeogrid(s, g, value) ==
  LET i == s.i
      more == i + 1 < s.share.max_dom
  IN
  CASE s.pc = "map_proj" -> At([s EXCEPT !.map_proj = value], g, "dx", 0)
    [] s.pc = "dx" -> At(s, g, "dy", 0)
    [] s.pc = "dy" -> At(s, g, "ref_lat", 0)
    [] s.pc = "ref_lat" -> At(s, g, "ref_lon", 0)
    [] s.pc = "ref_lon" -> AfterRefLon(s, g)
    [] s.pc = "truelat1" -> At(s, g, "truelat2", 0)
    [] s.pc \in {"truelat2", "truelat1_mercator", "truelat1_polar"} ->
         At(s, g, "stand_lon", 0)
    [] s.pc = "stand_lon" -> NestingLoop(s, g)
    [] s.pc = "parent_id" ->
         \* lines 493-497
         IF more THEN At(s, SetAt(g, "parent_id", i, int(value)), "parent_id", i + 1)
         ELSE At(s, SetAt(SetAt(g, "parent_id", i, int(value)),
                          "parent_grid_ratio", 0, 1), "parent_grid_ratio", 1)
    [] s.pc = "parent_grid_ratio" ->
         IF more
           THEN At(s, SetAt(g, "parent_grid_ratio", i, int(value)),
                   "parent_grid_ratio", i + 1)
           ELSE DimLoop(s, SetAt(g, "parent_grid_ratio", i, int(value)), 0)
    [] s.pc = "e_we" -> At(s, SetAt(g, "e_we", i, int(value)), "e_sn", i)
    [] s.pc = "e_sn" -> DimLoop(s, SetAt(g, "e_sn", i, int(value)), i + 1)
    [] s.pc = "i_parent_start" ->
         At(s, SetAt(g, "i_parent_start", i, int(value)), "j_parent_start", i)
    [] s.pc = "j_parent_start" ->
         FitCheck(s, SetAt(g, "j_parent_start", i, int(value)), i)
    [] s.pc = "adjust" -> AfterAdjust(s, g, i, value)
    [] s.pc = "geog_data_res" ->
         GeogResLoop(s, SetAt(g, "geog_data_res", i, value), i + 1)
    [] s.pc = "geog_data_path" -> At(Configured(s, "geogrid"), g, "out_format", 0)

\* lines 633-645
AcceptUngrib(s, g, value) ==
  IF s.pc = "out_format" THEN At(s, g, "prefix", 0)
  ELSE At(Configured(s, "ungrib"), g, "fg_name", 0)

\* lines 652-666
AcceptMetgrid(s, g, value) ==
  IF s.pc = "fg_name" THEN At(s, g, "io_form_metgrid", 0)
  ELSE AfterMetgrid(s, g)

\* lines 717, 45-52
AcceptReview(s, g, value) ==
  IF review_accepted(value) THEN At(s, g, "output_filename", 0)
  ELSE Both([s EXCEPT !.ended = "cancelled"], g)

\* lines 48, 735-762: write_namelist_wps is called; it ends the process with
\* status 1 when the file cannot be opened or written
AcceptOutput(s, g, opened) ==
  Both([s EXCEPT !.written = @ + 1,
                 !.ended = IF opened THEN "done" ELSE "write_failed"], g)

\* ------------------------------------------------------------------ Spec
\* One session of main(): a step is one pass of get_input's loop at the
\* current prompt, with everything the code does until the next prompt.

T_n == <<"n">>
T_x == <<"x">>

\* what an existing namelist.wps holds: any integer max_dom, date lists of
\* one entry or more, per-domain lists of one length with the nests alike
FileMaxDoms == (0 - 1)..MaxSessionDom
FileParentIds == {0, 1, 2, 5}
FileRatios == {0, 3}
FileShares ==
  {[max_dom |-> n,
    start_date |-> [i \in 1..k |-> T_date_a],
    end_date |-> [i \in 1..k |-> T_date_b]] : n \in FileMaxDoms, k \in 1..MaxSessionDom}
FileLists ==
  {[k \in ListKeys |->
      CASE k = "parent_id" -> [i \in 1..len |-> IF i = 1 THEN 1 ELSE p]
        [] k = "parent_grid_ratio" -> [i \in 1..len |-> IF i = 1 THEN 1 ELSE r]
        [] k \in {"i_parent_start", "j_parent_start"} -> [i \in 1..len |-> 1]
        [] k \in {"e_we", "e_sn"} -> [i \in 1..len |-> IF i = 1 THEN 100 ELSE 31]
        [] OTHER -> [i \in 1..len |-> T_default]] :
     len \in 1..MaxSessionDom, p \in FileParentIds, r \in FileRatios}
Files ==
  {NoFile, [NoFile EXCEPT !.found = TRUE]}
    \cup {[found |-> TRUE, readable |-> TRUE, share |-> sh, geogrid |-> g] :
            sh \in FileShares, g \in FileLists}

\* what the operator types at a prompt besides Enter and q
Typed(s) ==
  CASE s.pc \in {"use_existing", "adjust"} -> {T_n}
    [] s.pc = "wrf_core" -> {T_NMM, T_x}
    [] s.pc = "max_dom" -> {str_int(n) : n \in 0..MaxSessionDom}
    [] s.pc = "start_date" -> {T_date_a, T_x}
    [] s.pc = "end_date" -> {T_date_b, T_x}
    [] s.pc \in {"interval_seconds", "dx", "dy", "io_form_geogrid", "io_form_metgrid"} ->
         {<<"1">>, <<"0">>}
    [] s.pc = "debug_level" -> {<<"-", "1">>, T_x}
    [] s.pc = "map_proj" -> {T_mercator, T_lat_lon, T_x}
    [] s.pc \in {"ref_lat", "ref_lon", "truelat1", "truelat2", "truelat1_mercator",
                 "truelat1_polar", "stand_lon"} -> {<<"1", ".", "5">>, T_x}
    [] s.pc = "parent_id" -> {str_int(j) : j \in 0..MaxSessionDom}
    [] s.pc = "parent_grid_ratio" -> {str_int(5), <<"0">>}
    [] s.pc = "e_we" -> {str_int(31), <<"0">>}
    [] s.pc \in {"i_parent_start", "j_parent_start"} -> {str_int(90), <<"0">>}
    [] s.pc = "e_sn" -> {<<"0">>}
    [] s.pc = "geog_data_res" -> {T_default}
    [] s.pc = "out_format" -> {T_SI, T_x}
    [] s.pc = "review" -> {T_yes, <<"Y", "E", "S">>, T_n}
    [] OTHER -> {T_x}
Answers(s) == {<<>>, <<"q">>, <<"Q">>} \cup Typed(s)

\* the operator typed the quit command
Quits(user_input) == user_input \in {<<"q">>, <<"Q">>}

Init ==
  /\ \E f \in Files :
       ses = [pc |-> IF f.found THEN "use_existing" ELSE "wrf_core",
              i |-> 0, file |-> f, seed |-> "defaults",
              share |-> DefaultShare(T_date_a, T_date_b), map_proj |-> T_lambert,
              ended |-> "running", err |-> "none", written |-> 0,
              q_typed |-> FALSE, order |-> <<>>, reviewed |-> FALSE, review |-> <<>>]
  /\ geogrid = DefaultLists
  /\ adj = NoAdj
  /\ geo = NoGeo
  /\ cod = NoCod
  /\ rd = NoRd

\* one pass of get_input's loop at the current prompt on the input user_input
Pass(user_input) ==
  get_input(Default(ses, geogrid), IsValid(ses, user_input), user_input)

\* the session after the operator typed user_input and the pass ended in r
Heard(r, user_input) ==
  [ses EXCEPT !.q_typed = @ \/ Quits(user_input),
              !.reviewed = @ \/ (ses.pc = "review" /\ r.out = "return"),
              !.review = IF ses.pc = "review" /\ r.out = "return"
                           THEN user_input ELSE @]

\* nothing but get_input ran: sys.exit(0), or the prompt is shown again
Stay(r, s) == Both(IF r.out = "exit" THEN [s EXCEPT !.ended = "quit"] ELSE s, geogrid)

Becomes(n) ==
  /\ ses' = n.ses
  /\ geogrid' = n.geogrid
  /\ UNCHANGED <<adj, geo, cod, rd>>

\* lines 23-31
use_existing ==
  /\ ses.ended = "running" /\ ses.pc = "use_existing"
  /\ \E a \in Answers(ses) : \E r \in {Pass(a)} : \E s \in {Heard(r, a)} :
       Becomes(IF r.out = "return" THEN AcceptExisting(s, geogrid, r.value)
               ELSE Stay(r, s))

\* lines 328-395, then lines 37-38
configure_share ==
  /\ ses.ended = "running"
  /\ ses.pc \in {"wrf_core", "max_dom", "start_date", "end_date", "interval_seconds",
                 "io_form_geogrid", "debug_level"}
  /\ \E a \in Answers(ses) : \E r \in {Pass(a)} : \E s \in {Heard(r, a)} :
       Becomes(IF r.out = "return" THEN AcceptShare(s, geogrid, r.value)
               ELSE Stay(r, s))

\* lines 397-626
configure_geogrid ==
  /\ ses.ended = "running"
  /\ ses.pc \in {"map_proj", "dx", "dy", "ref_lat", "ref_lon", "truelat1", "truelat2",
                 "truelat1_mercator", "truelat1_polar", "stand_lon", "parent_id",
                 "parent_grid_ratio", "e_we", "e_sn", "i_parent_start",
                 "j_parent_start", "adjust", "geog_data_res", "geog_data_path"}
  /\ \E a \in Answers(ses) : \E r \in {Pass(a)} : \E s \in {Heard(r, a)} :
       Becomes(IF r.out = "return" THEN AcceptGeogrid(s, geogrid, r.value)
               ELSE Stay(r, s))

\* lines 628-645
configure_ungrib ==
  /\ ses.ended = "running" /\ ses.pc \in {"out_format", "prefix"}
  /\ \E a \in Answers(ses) : \E r \in {Pass(a)} : \E s \in {Heard(r, a)} :
       Becomes(IF r.out = "return" THEN AcceptUngrib(s, geogrid, r.value)
               ELSE Stay(r, s))

\* lines 647-666, then the summary of lines 668-713
configure_metgrid ==
  /\ ses.ended = "running" /\ ses.pc \in {"fg_name", "io_form_metgrid"}
  /\ \E a \in Answers(ses) : \E r \in {Pass(a)} : \E s \in {Heard(r, a)} :
       Becomes(IF r.out = "return" THEN AcceptMetgrid(s, geogrid, r.value)
               ELSE Stay(r, s))

\* lines 715-717, 45-52
review_configuration ==
  /\ ses.ended = "running" /\ ses.pc = "review"
  /\ \E a \in Answers(ses) : \E r \in {Pass(a)} : \E s \in {Heard(r, a)} :
       Becomes(IF r.out = "return" THEN AcceptReview(s, geogrid, r.value)
               ELSE Stay(r, s))

\* lines 47-50
output_file ==
  /\ ses.ended = "running" /\ ses.pc = "output_filename"
  /\ \E a \in Answers(ses), opened \in BOOLEAN :
       \E r \in {Pass(a)} : \E s \in {Heard(r, a)} :
         Becomes(IF r.out = "return" THEN AcceptOutput(s, geogrid, opened)
                 ELSE Stay(r, s))

Next ==
  \/ use_existing
  \/ configure_share
  \/ configure_geogrid
  \/ configure_ungrib
  \/ configure_metgrid
  \/ review_configuration
  \/ output_file

Spec == Init /\ [][Next]_vars

\* ------------------------------------------------------------ SpecCodec

\* lines 345-351 of configure_share on the share section
SetMaxDom(share, max_dom) ==
  LET s1 == DictSet(share, T_max_dom, IntV(max_dom))
      s2 == DictSet(s1, T_start_date,
                    ListV(GrowDates(DictGet(s1, T_start_date).v, max_dom)))
  IN DictSet(s2, T_end_date, ListV(GrowDates(DictGet(s2, T_end_date).v, max_dom)))

\* datetime.now() and the day after it, formatted
Clock == {<<T_date_a, T_date_b>>, <<T_date_c, T_date_d>>}

InitCodec ==
  /\ \E n \in 1..MaxDom, t \in Clock :
       cod = [pc |-> "defaults", n |-> n,
              share |-> default_share_params(t[1], t[2]),
              geogrid |-> default_geogrid_params,
              ungrib |-> default_ungrib_params,
              metgrid |-> default_metgrid_params,
              file |-> <<>>]
  /\ rd = NoRd
  /\ geogrid = NoGeogrid
  /\ adj = NoAdj
  /\ geo = NoGeo
  /\ ses = NoSes

\* the lists are grown to max_dom = n: lines 345-351 and line 38
CodecGrow ==
  /\ cod.pc = "defaults"
  /\ \E r \in {adjust_params_for_max_dom(BareLists(cod.geogrid), cod.n)} :
       /\ r.err = "none"
       /\ cod' = [cod EXCEPT !.pc = "grown",
                              !.share = SetMaxDom(cod.share, cod.n),
                              !.geogrid = WithLists(cod.geogrid, r.params)]
  /\ UNCHANGED <<geogrid, adj, geo, rd, ses>>

\* line 48; the file is then opened by read_existing_namelist (lines 163-170)
CodecWrite ==
  /\ cod.pc = "grown"
  /\ \E f \in {write_namelist_wps(cod.share, cod.geogrid, cod.ungrib, cod.metgrid)} :
       /\ cod' = [cod EXCEPT !.pc = "written", !.file = f]
       /\ rd' = [pc |-> "reading", lines |-> f, st |-> NewReader, out |-> <<>>]
  /\ UNCHANGED <<geogrid, adj, geo, ses>>

\* lines 171-243: the next line of the file
ReadNextLine ==
  /\ rd.pc = "reading"
  /\ Len(rd.lines) > 0
  /\ rd' = [rd EXCEPT !.st = ReadLine(rd.st, rd.lines[1]), !.lines = Tail(rd.lines)]
  /\ UNCHANGED <<geogrid, adj, geo, cod, ses>>

\* lines 245-253: the end of the file
ReadEnd ==
  /\ rd.pc = "reading"
  /\ Len(rd.lines) = 0
  /\ rd' = [rd EXCEPT !.pc = "returned", !.out = ReadReturn(rd.st)]
  /\ UNCHANGED <<geogrid, adj, geo, cod, ses>>

NextCodec == CodecGrow \/ CodecWrite \/ ReadNextLine \/ ReadEnd

SpecCodec == InitCodec /\ [][NextCodec]_vars

\* ------------------------------------------------------------- SpecRead

\* read_existing_namelist on a file of up to MaxLines lines taken from: two
\* recognised section headers (one in capitals behind a blank), a header with
\* another name, the section end and two key = value lines
KeyValueLine(key, n) == key \o <<" ", "=", " ">> \o str_int(n)

ReadInputLines ==
  {<<"&">> \o T_share,
   <<" ", "&", "G", "E", "O", "G", "R", "I", "D">>,
   <<"&">> \o T_x,
   <<"/">>,
   KeyValueLine(T_max_dom, 2),
   KeyValueLine(T_e_we, 100)}

ReadInputs == ListsUpTo(ReadInputLines, MaxLines)

\* lines 163-170: the sections are empty, no section is open and the file is
\* open; input keeps the lines of the file
InitRead ==
  /\ \E f \in ReadInputs :
       rd = [pc |-> "reading", lines |-> f, st |-> NewReader, out |-> <<>>,
             input |-> f]
  /\ geogrid = NoGeogrid
  /\ adj = NoAdj
  /\ geo = NoGeo
  /\ cod = NoCod
  /\ ses = NoSes

NextRead == ReadNextLine \/ ReadEnd

SpecRead == InitRead /\ [][NextRead]_vars

\* ------------------------------------------------------------- SpecGeom

\* the placement of one nested domain, lines 545-599 of configure_geogrid:
\* the dimensions of the parent and of the nest and the ratio are given
GeomInputs ==
  [parent_we : 1..MaxDim, parent_sn : 1..MaxDim, nest_we : 1..MaxDim,
   nest_sn : 1..MaxDim, ratio : 1..MaxRatio]
  \cup {[parent_we |-> 100, parent_sn |-> 100, nest_we |-> 31, nest_sn |-> 31,
         ratio |-> 3]}

\* what the operator types at a start prompt: nothing (Enter) or a positive
\* integer
StartAnswers == {<<>>} \cup {str_int(n) : n \in 1..MaxDim}

InitGeom ==
  /\ \E in \in GeomInputs :
       geo = [pc |-> "suggest", in |-> in, suggested_i |-> 0, suggested_j |-> 0,
              i_parent_start |-> 0, j_parent_start |-> 0, i_end |-> 0,
              j_end |-> 0, adjusted |-> FALSE]
  /\ geogrid = NoGeogrid
  /\ adj = NoAdj
  /\ cod = NoCod
  /\ rd = NoRd
  /\ ses = NoSes

\* lines 549-559
GeomSuggest ==
  /\ geo.pc = "suggest"
  /\ geo' = [geo EXCEPT
       !.pc = "ask_i",
       !.suggested_i = suggest_nest_location(geo.in.parent_we, geo.in.nest_we, geo.in.ratio),
       !.suggested_j = suggest_nest_location(geo.in.parent_sn, geo.in.nest_sn, geo.in.ratio)]
  /\ UNCHANGED <<geogrid, adj, cod, rd, ses>>

\* lines 566-571: Enter takes the suggestion
GeomAskI ==
  /\ geo.pc = "ask_i"
  /\ \E a \in StartAnswers :
       \E r \in {get_input(str_int(geo.suggested_i), validate_positive_integer(a), a)} :
         /\ r.out = "return"
         /\ geo' = [geo EXCEPT !.pc = "ask_j", !.i_parent_start = int(r.value)]
  /\ UNCHANGED <<geogrid, adj, cod, rd, ses>>

\* lines 573-578
GeomAskJ ==
  /\ geo.pc = "ask_j"
  /\ \E a \in StartAnswers :
       \E r \in {get_input(str_int(geo.suggested_j), validate_positive_integer(a), a)} :
         /\ r.out = "return"
         /\ geo' = [geo EXCEPT !.pc = "check", !.j_parent_start = int(r.value)]
  /\ UNCHANGED <<geogrid, adj, cod, rd, ses>>

\* lines 580-589: the fit check; out of bounds leads to the adjust prompt
GeomCheck ==
  /\ geo.pc = "check"
  /\ LET i_end == NestEnd(geo.i_parent_start, geo.in.nest_we, geo.in.ratio)
         j_end == NestEnd(geo.j_parent_start, geo.in.nest_sn, geo.in.ratio)
     IN geo' = [geo EXCEPT
          !.i_end = i_end, !.j_end = j_end,
          !.pc = IF OutOfBounds(i_end, j_end, geo.in.parent_we, geo.in.parent_sn)
                   THEN "warn" ELSE "done"]
  /\ UNCHANGED <<geogrid, adj, cod, rd, ses>>

\* lines 589-599: the operator answers y / yes / Enter
GeomAccept ==
  /\ geo.pc = "warn"
  /\ geo' = [geo EXCEPT
       !.pc = "done", !.adjusted = TRUE,
       !.i_parent_start = RepairStart(geo.i_parent_start, geo.i_end,
                                      geo.in.parent_we, geo.in.nest_we, geo.in.ratio),
       !.j_parent_start = RepairStart(geo.j_parent_start, geo.j_end,
                                      geo.in.parent_sn, geo.in.nest_sn, geo.in.ratio)]
  /\ UNCHANGED <<geogrid, adj, cod, rd, ses>>

\* line 590: any other answer leaves the start values as entered
GeomDecline ==
  /\ geo.pc = "warn"
  /\ geo' = [geo EXCEPT !.pc = "done"]
  /\ UNCHANGED <<geogrid, adj, cod, rd, ses>>

NextGeom ==
  GeomSuggest \/ GeomAskI \/ GeomAskJ \/ GeomCheck \/ GeomAccept \/ GeomDecline

SpecGeom == InitGeom /\ [][NextGeom]_vars

\* ------------------------------------------------- claims on SpecAdjust

Returned == Len(adj.calls) > 0 /\ adj.err = "none"
LastCall == adj.calls[Len(adj.calls)]

\* C1: when adjust_params_for_max_dom(params, n) returns, n >= 1, every one
\* of the seven per-domain lists present in the section has exactly n entries.
C1_ExactLength ==
  (Returned /\ LastCall.n >= 1) =>
    \A k \in ListKeys \cap DOMAIN geogrid : Len(geogrid[k]) = LastCall.n

\* a call with n >= 1 returned on a section holding a list shorter than n,
\* one of length n and one longer than n
C1_Witness ==
  /\ Returned
  /\ LastCall.n >= 1
  /\ \E a, b, c \in ListKeys \cap DOMAIN geogrid :
       /\ Len(LastCall.pre[a]) < LastCall.n
       /\ Len(LastCall.pre[b]) = LastCall.n
       /\ Len(LastCall.pre[c]) > LastCall.n
       /\ Len(geogrid[a]) = LastCall.n
       /\ Len(geogrid[c]) = LastCall.n

\* the list under k had L >= 1 entries, the first call grew it (n > L) and
\* the second call asked for L again; both returned
GrewThenShrank(k) ==
  /\ Len(adj.calls) = 2
  /\ adj.err = "none"
  /\ k \in DOMAIN geogrid
  /\ Len(adj.calls[1].pre[k]) >= 1
  /\ adj.calls[1].n > Len(adj.calls[1].pre[k])
  /\ adj.calls[2].n = Len(adj.calls[1].pre[k])

\* C8: growing a per-domain list of length L >= 1 to n > L and then shrinking
\* it back to L leaves it equal, entry by entry, to the list before the
\* first call.
C8_GrowShrinkRestores ==
  \A k \in ListKeys : GrewThenShrank(k) => geogrid[k] = adj.calls[1].pre[k]

\* e_we = [101, 100] was grown and shrunk back
C8_Witness ==
  /\ GrewThenShrank("e_we")
  /\ adj.calls[1].pre["e_we"] = <<101, 100>>
  /\ Len(adj.calls[2].pre["e_we"]) = 3
  /\ geogrid["e_we"] = <<101, 100>>

\* the first call returned and grew the list under k, which was not empty
Grew(k) ==
  /\ Len(adj.calls) = 1
  /\ adj.err = "none"
  /\ k \in DOMAIN geogrid
  /\ Len(adj.calls[1].pre[k]) >= 1
  /\ adj.calls[1].n > Len(adj.calls[1].pre[k])

\* C10: growing e_we (and e_sn) appends, entry by entry, the previous entry
\* plus 1 if it is even and the previous entry itself if it is odd, so every
\* appended entry is odd; [100] grown to length 3 is [100, 101, 101].
C10_DimGrowth ==
  \A k \in {"e_we", "e_sn"} :
    Grew(k) =>
      /\ SubSeq(geogrid[k], 1, Len(adj.calls[1].pre[k])) = adj.calls[1].pre[k]
      /\ \A i \in (Len(adj.calls[1].pre[k]) + 1)..Len(geogrid[k]) :
           /\ geogrid[k][i] =
                IF geogrid[k][i - 1] % 2 = 0
                  THEN geogrid[k][i - 1] + 1 ELSE geogrid[k][i - 1]
           /\ geogrid[k][i] % 2 = 1
      /\ (adj.calls[1].pre[k] = <<100>> /\ adj.calls[1].n = 3)
           => geogrid[k] = <<100, 101, 101>>

\* e_we = [100] was grown to length 3
C10_Witness ==
  /\ Grew("e_we")
  /\ adj.calls[1].pre["e_we"] = <<100>>
  /\ adj.calls[1].n = 3
  /\ geogrid["e_we"] = <<100, 101, 101>>

\* the 1-based positions of the entries the first call appended under k
Appended(k) == (Len(adj.calls[1].pre[k]) + 1)..Len(geogrid[k])

\* the entries under k that existed before the first call are unchanged
KeptOld(k) ==
  \A i \in 1..Len(adj.calls[1].pre[k]) : geogrid[k][i] = adj.calls[1].pre[k][i]

\* C11: growing parent_grid_ratio from a one-entry list appends 3 as the
\* second entry and every further entry repeats the entry before it; grown
\* from [1] to length 3 the list is [1, 3, 3].
C11_RatioGrowth ==
  (Grew("parent_grid_ratio") /\ Len(adj.calls[1].pre["parent_grid_ratio"]) = 1) =>
    /\ Len(geogrid["parent_grid_ratio"]) = adj.calls[1].n
    /\ KeptOld("parent_grid_ratio")
    /\ geogrid["parent_grid_ratio"][2] = 3
    /\ \A i \in Appended("parent_grid_ratio") :
         i > 2 => geogrid["parent_grid_ratio"][i] = geogrid["parent_grid_ratio"][i - 1]
    /\ (adj.calls[1].pre["parent_grid_ratio"] = <<1>> /\ adj.calls[1].n = 3) =>
         geogrid["parent_grid_ratio"] = <<1, 3, 3>>

\* parent_grid_ratio = [1] was grown to length 3
C11_Witness ==
  /\ Grew("parent_grid_ratio")
  /\ adj.calls[1].pre["parent_grid_ratio"] = <<1>>
  /\ adj.calls[1].n = 3
  /\ geogrid["parent_grid_ratio"] = <<1, 3, 3>>

\* C12: growing a non-empty parent_id list appends at each step the length
\* the list had before the append, so the entry created at 0-based index k
\* equals k, and the entries present before the call are unchanged.
C12_ParentIdGrowth ==
  Grew("parent_id") =>
    /\ Len(geogrid["parent_id"]) = adj.calls[1].n
    /\ KeptOld("parent_id")
    /\ \A i \in Appended("parent_id") : geogrid["parent_id"][i] = i - 1

\* parent_id = [9] was grown to length 3
C12_Witness ==
  /\ Grew("parent_id")
  /\ adj.calls[1].pre["parent_id"] = <<9>>
  /\ adj.calls[1].n = 3
  /\ geogrid["parent_id"] = <<9, 1, 2>>

\* the first call was made on a section holding all seven per-domain lists,
\* all of the same length L >= 1, with a target n > L
EqualLists ==
  /\ Len(adj.calls) = 1
  /\ DOMAIN adj.calls[1].pre = ListKeys
  /\ \A k \in ListKeys :
       Len(adj.calls[1].pre[k]) = Len(adj.calls[1].pre["parent_id"])
  /\ Len(adj.calls[1].pre["parent_id"]) >= 1
  /\ adj.calls[1].n > Len(adj.calls[1].pre["parent_id"])

\* C13: called on a section whose seven per-domain lists all have the same
\* length L >= 1 with a target n > L, adjust_params_for_max_dom returns and
\* every entry it appended to i_parent_start and to j_parent_start is 1.
C13_StartsGrowToOne ==
  EqualLists =>
    /\ adj.err = "none"
    /\ \A k \in {"i_parent_start", "j_parent_start"} :
         /\ Len(geogrid[k]) = adj.calls[1].n
         /\ KeptOld(k)
         /\ \A i \in Appended(k) : geogrid[k][i] = 1

\* seven one-entry lists with ratio [1] were grown to length 3
C13_Witness ==
  /\ EqualLists
  /\ adj.err = "none"
  /\ adj.calls[1].pre["parent_grid_ratio"] = <<1>>
  /\ adj.calls[1].pre["e_we"] = <<100>>
  /\ adj.calls[1].n = 3
  /\ geogrid["i_parent_start"] = <<2, 1, 1>>
  /\ geogrid["j_parent_start"] = <<2, 1, 1>>
  /\ geogrid["e_we"] = <<100, 101, 101>>

\* C15: adjust_params_for_max_dom terminates on every section of finite
\* per-domain lists, empty lists included, and every target max_dom >= 0:
\* no call with a target >= 0 is left repeating a pass of the growth loop
\* that appends nothing.
C15_Terminates ==
  (Len(adj.calls) > 0 /\ LastCall.n >= 0) => adj.err # "hang"

\* --------------------------------------------------- claims on SpecGeom

\* the nest fits its parent on both axes at the stored start values
Fits ==
  /\ NestEnd(geo.i_parent_start, geo.in.nest_we, geo.in.ratio) <= geo.in.parent_we
  /\ NestEnd(geo.j_parent_start, geo.in.nest_sn, geo.in.ratio) <= geo.in.parent_sn

\* C3: whenever the fit check finds the nest out of bounds and the operator
\* accepts the adjustment, the repaired start values make the nest fit, for
\* all positive dimensions, ratios and entered start positions.
C3_RepairFits == (geo.pc = "done" /\ geo.adjusted) => Fits

\* C9 as stated: suggest_nest_location(100, 31, 3) returns 44.
C9_Returns44 ==
  (geo.pc = "ask_i" /\ geo.in.parent_we = 100 /\ geo.in.nest_we = 31 /\ geo.in.ratio = 3)
    => geo.suggested_i = 44

\* C9, amended: suggest_nest_location(100, 31, 3) returns 45
\* (50 - 11 // 2 = 50 - 5).
C9_Returns45 ==
  (geo.pc = "ask_i" /\ geo.in.parent_we = 100 /\ geo.in.nest_we = 31 /\ geo.in.ratio = 3)
    => geo.suggested_i = 45

\* the suggestion for a parent of 100, a nest of 31 and ratio 3 was computed
C9_Witness ==
  /\ geo.pc = "ask_i"
  /\ geo.in.parent_we = 100 /\ geo.in.nest_we = 31 /\ geo.in.ratio = 3
  /\ geo.suggested_i = 45

\* on one axis: the nest, ceil(nest_dim / ratio) parent cells wide, is no
\* wider than the parent
NoWider(parent_dim, nest_dim, ratio) == CeilDiv(nest_dim, ratio) <= parent_dim

\* the suggested start s on one axis is at least 1 and the nest placed at s
\* ends inside the parent
SuggestionFits(s, parent_dim, nest_dim, ratio) ==
  s >= 1 /\ s + CeilDiv(nest_dim, ratio) - 1 <= parent_dim

\* the fit check has run on the start values as the operator entered them
Checked == geo.pc \in {"warn", "done"} /\ ~geo.adjusted

\* C16: for positive parent_dim, nest_dim and ratio with
\* ceil(nest_dim / ratio) <= parent_dim, s = suggest_nest_location(parent_dim,
\* nest_dim, ratio) satisfies s >= 1 and s + ceil(nest_dim / ratio) - 1 <=
\* parent_dim; so when the operator takes the suggested start on an axis the
\* fit check finds the nest inside the parent on that axis, and with both
\* suggestions taken there is no out-of-bounds warning.
C16_SuggestionFits ==
  /\ (geo.pc \notin {"off", "suggest"} /\ NoWider(geo.in.parent_we, geo.in.nest_we, geo.in.ratio))
       => SuggestionFits(geo.suggested_i, geo.in.parent_we, geo.in.nest_we, geo.in.ratio)
  /\ (geo.pc \notin {"off", "suggest"} /\ NoWider(geo.in.parent_sn, geo.in.nest_sn, geo.in.ratio))
       => SuggestionFits(geo.suggested_j, geo.in.parent_sn, geo.in.nest_sn, geo.in.ratio)
  /\ (/\ geo.pc # "off" /\ Checked
      /\ geo.i_parent_start = geo.suggested_i
      /\ NoWider(geo.in.parent_we, geo.in.nest_we, geo.in.ratio))
       => geo.i_end <= geo.in.parent_we
  /\ (/\ geo.pc # "off" /\ Checked
      /\ geo.j_parent_start = geo.suggested_j
      /\ NoWider(geo.in.parent_sn, geo.in.nest_sn, geo.in.ratio))
       => geo.j_end <= geo.in.parent_sn
  /\ (/\ geo.pc # "off" /\ Checked
      /\ geo.i_parent_start = geo.suggested_i
      /\ geo.j_parent_start = geo.suggested_j
      /\ NoWider(geo.in.parent_we, geo.in.nest_we, geo.in.ratio)
      /\ NoWider(geo.in.parent_sn, geo.in.nest_sn, geo.in.ratio))
       => geo.pc = "done"

\* a nest of 5 x 4 at ratio 1 in a parent of 5 x 5: the operator took both
\* suggestions (1, 1), the nest ends at (5, 4) and the check raised no warning
C16_Witness ==
  /\ geo.pc = "done"
  /\ ~geo.adjusted
  /\ geo.in.parent_we = 5 /\ geo.in.parent_sn = 5
  /\ geo.in.nest_we = 5 /\ geo.in.nest_sn = 4 /\ geo.in.ratio = 1
  /\ geo.i_parent_start = geo.suggested_i /\ geo.suggested_i = 1
  /\ geo.j_parent_start = geo.suggested_j /\ geo.suggested_j = 1
  /\ geo.i_end = 5 /\ geo.j_end = 4

\* --------------------------------------------------- claims on SpecRead

\* the lines of the file read so far
Consumed == SubSeq(rd.input, 1, Len(rd.input) - Len(rd.lines))

\* raw is a '&name' line, with a recognised name or with another name
IsHeader(raw) == startswith(strip(raw), "&")
Recognised(raw) == IsHeader(raw) /\ lower(Tail(strip(raw))) \in SectionNames
Unrecognised(raw) == IsHeader(raw) /\ ~Recognised(raw)

\* a '&name' line with an unrecognised name was read and no recognised
\* '&' line was read after it
AfterUnrecognised ==
  \E i \in 1..Len(Consumed) :
    /\ Unrecognised(Consumed[i])
    /\ \A j \in (i + 1)..Len(Consumed) : ~Recognised(Consumed[j])

\* C14: after a line '&name' whose name is not share / geogrid / ungrib /
\* metgrid the parser has no active section: a line read after it and before
\* the next recognised '&' line adds nothing to and changes nothing in any of
\* the four sections, whatever lines came before the '&name' line.
C14_UnrecognisedStoresNothing ==
  [][(/\ rd.pc = "reading"
      /\ AfterUnrecognised
      /\ Len(rd.lines) > 0
      /\ ~Recognised(rd.lines[1]))
       => rd'.st.secs = rd.st.secs]_vars

\* -------------------------------------------------- claims on SpecCodec

\* two values of the same type and content
SameValue(x, y) ==
  /\ x.t = y.t
  /\ IF x.t = "list"
       THEN /\ Len(x.v) = Len(y.v)
            /\ \A i \in 1..Len(x.v) : x.v[i].t = y.v[i].t /\ x.v[i] = y.v[i]
       ELSE x = y

\* two sections with the same keys and, key for key, the same values
SameSection(a, b) ==
  /\ Len(a) = Len(b)
  /\ DictKeys(a) = DictKeys(b)
  /\ \A k \in DictKeys(a) : SameValue(DictGet(a, k), DictGet(b, k))

\* C2: the default sections, grown to max_dom = n >= 1, written with
\* write_namelist_wps and read back with read_existing_namelist, come back
\* with the same keys and the same scalar and list values; the per-domain
\* parameters come back as lists of length n, also when n = 1.
C2_RoundTrip ==
  rd.pc = "returned" =>
    /\ SameSection(rd.out[T_share], cod.share)
    /\ SameSection(rd.out[T_geogrid], cod.geogrid)
    /\ SameSection(rd.out[T_ungrib], cod.ungrib)
    /\ SameSection(rd.out[T_metgrid], cod.metgrid)
    /\ \A k \in ListKeys :
         /\ DictGet(rd.out[T_geogrid], KeyText(k)).t = "list"
         /\ Len(DictGet(rd.out[T_geogrid], KeyText(k)).v) = cod.n
    /\ \A k \in {T_start_date, T_end_date} :
         /\ DictGet(rd.out[T_share], k).t = "list"
         /\ Len(DictGet(rd.out[T_share], k).v) = cod.n

\* the defaults with max_dom = 1 were written and read back, e_we as [100]
C2_Witness ==
  /\ rd.pc = "returned"
  /\ cod.n = 1
  /\ Len(cod.file) > 0
  /\ DictGet(rd.out[T_geogrid], T_e_we) = ListV(<<IntV(100)>>)
  /\ DictGet(rd.out[T_geogrid], T_ref_lon) = FloatV(TRUE, 81, <<>>)

\* ------------------------------------------------------- claims on Spec

\* write_namelist_wps was called with the store the state holds
Handed == ses.written > 0

\* C4: in every store handed to write_namelist_wps, parent_id[i] is in 1..i
\* for every i with 0 < i < max_dom.
C4_ParentIdInRange ==
  Handed =>
    \A i \in 1..(ses.share.max_dom - 1) :
      PyIndex(geogrid["parent_id"], i) \in 1..i

\* C5: in every store handed to write_namelist_wps, share.max_dom >= 1.
C5_MaxDomPositive == Handed => ses.share.max_dom >= 1

\* C6: once the operator has typed q or Q at a prompt the session has ended
\* there by sys.exit(0) without a call of write_namelist_wps, and nothing
\* happens afterwards: no later prompt, no write.
C6_QuitAborts ==
  [][/\ ses'.q_typed => (ses'.ended = "quit" /\ ses'.written = 0 /\ ses'.pc = ses.pc)
     /\ ses.q_typed => UNCHANGED vars]_vars

\* the operator typed the quit command at the last prompt, the output
\* filename, after a review answered with Enter
C6_Witness ==
  /\ ses.q_typed
  /\ ses.ended = "quit"
  /\ ses.pc = "output_filename"
  /\ ses.reviewed /\ ses.review = <<>>
  /\ ses.written = 0

AllConfigured == ses.order = <<"share", "geogrid", "ungrib", "metgrid">>

\* C7 as stated: write_namelist_wps is called at most once, only after the
\* four sections were configured in order and the review was answered
\* exactly y, yes or Enter; after any other answer it is never called.
C7_WriteOnlyAfterLowerYes ==
  /\ ses.written <= 1
  /\ Handed => (AllConfigured /\ ses.reviewed /\ ses.review \in {<<>>, T_y, T_yes})
  /\ (ses.reviewed /\ ses.review \notin {<<>>, T_y, T_yes}) => ~Handed

\* C7: write_namelist_wps is called at most once, only after the four
\* sections were configured in order and the review was answered y or yes
\* in any letter case, or Enter; after any other answer it is never called.
C7_WriteOnlyAfterYes ==
  /\ ses.written <= 1
  /\ Handed =>
       /\ AllConfigured
       /\ ses.reviewed
       /\ (ses.review = <<>> \/ lower(ses.review) \in {T_y, T_yes})
  /\ (ses.reviewed /\ ses.review # <<>> /\ lower(ses.review) \notin {T_y, T_yes})
       => ~Handed

\* the review was answered YES and the file was written, once
C7_Witness ==
  /\ ses.written = 1
  /\ ses.ended = "done"
  /\ ses.review = <<"Y", "E", "S">>
  /\ AllConfigured

====
